---- MODULE Spec2Model ----
(***************************************************************************)
(* A model of the two ARC Course Record Entry clients of this repository:  *)
(*   "lib"     src/lib/ArcCre.js                                           *)
(*   "unnamed" src/unnamed/part_000                                        *)
(*                                                                         *)
(* JavaScript strings are sequences of one-character strings, so that      *)
(* substring, concatenation, join and template literals are computed and   *)
(* not assumed.  A JavaScript object is a function whose DOMAIN is the set *)
(* of its own keys that hold a defined value.                              *)
(***************************************************************************)
EXTENDS Integers, Sequences, FiniteSets, TLC

VARIABLES
    impl,       \* which of the two source files the clients are built from
    options,    \* client -> the options object handed to the constructor
    client,     \* client -> the constructed ArcCre object
    heap,       \* the caller's header objects, by reference
    calls,      \* caller -> the operation it has in flight (or none)
    logs,       \* what the logger received, in order
    built       \* the results of direct _buildApiUrl calls

vars == <<impl, options, client, heap, calls, logs, built>>

(***************************************************************************)
(* Bounds of the model                                                     *)
(***************************************************************************)
MaxRecords == 3

Impls == {"lib", "unnamed"}
Clients == {"c1", "c2"}
Callers == {"a", "b"}

(***************************************************************************)
(* Strings                                                                 *)
(***************************************************************************)
DigitChars == <<"0", "1", "2", "3", "4", "5", "6", "7", "8", "9">>

RECURSIVE NumberToString(_)
\* String(n) of a non-negative integer, as string concatenation and
\* template literals convert it
NumberToString(n) ==
    IF n < 10 THEN <<DigitChars[n + 1]>>
    ELSE NumberToString(n \div 10) \o <<DigitChars[(n % 10) + 1]>>

RECURSIVE Join(_, _)
\* Array.prototype.join over an array of strings
Join(strs, sep) ==
    IF Len(strs) = 0 THEN <<>>
    ELSE IF Len(strs) = 1 THEN strs[1]
    ELSE strs[1] \o sep \o Join(Tail(strs), sep)

\* s.substring(0, 1)
FirstChar(s) == SubSeq(s, 1, IF Len(s) < 1 THEN Len(s) ELSE 1)

\* a || b on strings: the empty string (and an omitted option, modelled as
\* the empty string) is falsy
OrStr(a, b) == IF a = <<>> THEN b ELSE a

\* a || b on numbers: 0 (and an omitted option, modelled as 0) is falsy
OrNum(a, b) == IF a = 0 THEN b ELSE a

EmptyObject == [k \in {} |-> <<>>]

DELIMITER == <<"|">>

RECORD_TYPES ==
    [INSTRUCTOR |-> <<"B">>, ORGANIZATION |-> <<"A">>, STUDENT |-> <<"C">>]

DefaultHost ==
    <<"a","r","c","-","c","o","u","r","s","e","-","r","e","c","o","r","d","-",
      "e","n","t","r","y","-","s","f","-","e","a","p","i","-","q","a",".",
      "u","s","-","e","1",".","c","l","o","u","d","h","u","b",".","i","o">>

Https == <<"h","t","t","p","s">>

DefaultTimeout == 1000 * 60 * 3

(***************************************************************************)
(* Construction                                                            *)
(***************************************************************************)
\* function ArcCre(options) of src/lib/ArcCre.js
ArcCreLib(o) ==
    [ name         |-> <<"a","r","c","C","r","e">>,
      apiVersion   |-> OrNum(o.apiVersion, OrNum(o.version, 1)),
      clientId     |-> o.clientId,
      clientSecret |-> o.clientSecret,
      debug        |-> FALSE,
      host         |-> OrStr(o.host, DefaultHost),
      sourceSystem |-> o.sourceSystem ]

\* function ArcCre(options, logger) of src/unnamed/part_000
ArcCreUnnamed(o, logger) ==
    [ name         |-> <<"a","r","c","-","c","r","e">>,
      apiVersion   |-> OrNum(o.apiVersion, OrNum(o.version, 1)),
      host         |-> OrStr(o.host, DefaultHost),
      clientId     |-> o.clientId,
      clientSecret |-> o.clientSecret,
      sourceSystem |-> o.sourceSystem,
      logger       |-> logger,
      loggerConfig |-> o.loggerConfig,
      logLevel     |-> OrStr(o.logLevel, <<"v","e","r","b","o","s","e">>),
      protocol     |-> OrStr(o.protocol, Https),
      timeout      |-> OrNum(o.timeout, DefaultTimeout) ]

(***************************************************************************)
(* URL construction                                                        *)
(***************************************************************************)
\* _buildApiUrl of src/lib/ArcCre.js
BuildApiUrlLib(c, endpoint) ==
    LET e == IF FirstChar(endpoint) # <<"/">> THEN <<"/">> \o endpoint
             ELSE endpoint
    IN  Https \o <<":","/","/">> \o client[c].host \o <<"/","v">>
          \o NumberToString(client[c].apiVersion) \o e

\* _buildPath of src/unnamed/part_000
BuildPath(c, endpoint) ==
    LET e == IF FirstChar(endpoint) # <<"/">> THEN <<"/">> \o endpoint
             ELSE endpoint
    IN  <<"/","c","o","u","r","s","e","/","r","e","c","o","r","d","e","n","t",
          "r","y","/","e","a","p","i","/","v">>
          \o NumberToString(client[c].apiVersion) \o e

\* _buildScheme of src/unnamed/part_000
BuildScheme(c) == client[c].protocol \o <<":","/","/">> \o client[c].host

\* _buildApiUrl of src/unnamed/part_000
BuildApiUrlUnnamed(c, endpoint) == BuildScheme(c) \o BuildPath(c, endpoint)

BuildApiUrl(c, endpoint) ==
    IF impl = "lib" THEN BuildApiUrlLib(c, endpoint)
    ELSE BuildApiUrlUnnamed(c, endpoint)

(***************************************************************************)
(* Record serialization                                                    *)
(***************************************************************************)
\* option.<field> as Array.prototype.join renders it: a field the record
\* does not carry is undefined and joins as the empty string
Field(option, f) == IF f \in DOMAIN option THEN option[f] ELSE <<>>

\* option.type as the switch reads it (an absent type matches no case)
TypeOf(option) == IF "type" \in DOMAIN option THEN option["type"] ELSE <<>>

\* the switch on option.type of createCRE in src/lib/ArcCre.js: the lines
\* one record pushes
SwitchLib(organizationId, batchId, classId, option) ==
    LET lead == <<organizationId, NumberToString(batchId),
                  NumberToString(classId), RECORD_TYPES.ORGANIZATION>>
    IN  IF TypeOf(option) = RECORD_TYPES.ORGANIZATION THEN
          <<Join(lead \o <<Field(option, "organizationName"),
                Field(option, "poAccountName"), Field(option, "productSKU"),
                Field(option, "startDate"), Field(option, "endDate"),
                Field(option, "numberOfStudents"),
                Field(option, "facilityName"), Field(option, "address"),
                Field(option, "city"), Field(option, "state"),
                Field(option, "zipCode")>>, DELIMITER)>>
        ELSE IF TypeOf(option) = RECORD_TYPES.INSTRUCTOR THEN
          <<Join(lead \o <<Field(option, "instructorID"),
                Field(option, "firstName"), Field(option, "lastName"),
                Field(option, "email")>>, DELIMITER)>>
        ELSE IF TypeOf(option) = RECORD_TYPES.STUDENT THEN
          <<Join(lead \o <<Field(option, "firstName"),
                Field(option, "lastName"), Field(option, "email"),
                Field(option, "phoneNumber"), Field(option, "mastery"),
                Field(option, "notes")>>, DELIMITER)>>
        ELSE <<>>

RECURSIVE LinesLib(_, _, _, _)
\* the for loop of createCRE in src/lib/ArcCre.js
LinesLib(organizationId, batchId, classId, opts) ==
    IF opts = <<>> THEN <<>>
    ELSE SwitchLib(organizationId, batchId, classId, Head(opts))
           \o LinesLib(organizationId, batchId, classId, Tail(opts))

\* the switch on option.type of createCRE in src/unnamed/part_000
SwitchUnnamed(c, organizationId, batchId, classId, option) ==
    LET lead == <<organizationId, NumberToString(batchId),
                  NumberToString(classId)>>
    IN  IF TypeOf(option) = RECORD_TYPES.ORGANIZATION THEN
          <<Join(lead \o <<RECORD_TYPES.ORGANIZATION, organizationId,
                client[c].sourceSystem,
                Field(option, "poAccountName"), Field(option, "productSKU"),
                Field(option, "startDate"), Field(option, "endDate"),
                Field(option, "numberOfStudents"),
                Field(option, "facilityName"), Field(option, "address"),
                Field(option, "city"), Field(option, "state"),
                Field(option, "zipCode")>>, DELIMITER)>>
        ELSE IF TypeOf(option) = RECORD_TYPES.INSTRUCTOR THEN
          <<Join(lead \o <<RECORD_TYPES.INSTRUCTOR,
                Field(option, "instructorID"),
                Field(option, "firstName"), Field(option, "lastName"),
                Field(option, "email")>>, DELIMITER)>>
        ELSE IF TypeOf(option) = RECORD_TYPES.STUDENT THEN
          <<Join(lead \o <<RECORD_TYPES.STUDENT,
                Field(option, "firstName"),
                Field(option, "lastName"), Field(option, "email"),
                Field(option, "phoneNumber"), Field(option, "mastery"),
                Field(option, "notes")>>, DELIMITER)>>
        ELSE <<>>

RECURSIVE LinesUnnamedUnshift(_, _, _, _, _)
\* the loop with lines.unshift in place of lines.push
LinesUnnamedUnshift(c, organizationId, batchId, classId, opts) ==
    IF opts = <<>> THEN <<>>
    ELSE LinesUnnamedUnshift(c, organizationId, batchId, classId, Tail(opts))
           \o SwitchUnnamed(c, organizationId, batchId, classId, Head(opts))

RECURSIVE LinesUnnamedLoop(_, _, _, _, _)
LinesUnnamedLoop(c, organizationId, batchId, classId, opts) ==
    IF opts = <<>> THEN <<>>
    ELSE SwitchUnnamed(c, organizationId, batchId, classId, Head(opts))
           \o LinesUnnamedLoop(c, organizationId, batchId, classId, Tail(opts))

\* the for loop of createCRE in src/unnamed/part_000
LinesUnnamed(c, organizationId, batchId, classId, opts) ==
    LinesUnnamedLoop(c, organizationId, batchId, classId, opts)

\* the line-break sequence each file joins the lines with
LineBreak == IF impl = "lib" THEN <<"\r", "\n">> ELSE <<"\n">>

\* const body = lines.join(...) of createCRE
Body(c, organizationId, batchId, classId, opts) ==
    IF impl = "lib"
    THEN Join(LinesLib(organizationId, batchId, classId, opts), LineBreak)
    ELSE Join(LinesUnnamed(c, organizationId, batchId, classId, opts),
              LineBreak)

(***************************************************************************)
(* Request construction                                                    *)
(***************************************************************************)
HeaderObjs == {"h1", "h2"}

\* what a caller may pass as the headers argument: nothing, null, or a
\* reference to one of its header objects
HeaderArgs == {"undefined", "null"} \cup HeaderObjs

\* const defaultHeaders = {...} of _request (the same in both files)
DefaultHeaders(c) ==
    [k \in {"client_id", "client_secret", "Content-Type", "source_system"} |->
        CASE k = "client_id" -> client[c].clientId
          [] k = "client_secret" -> client[c].clientSecret
          [] k = "Content-Type" -> <<"t","e","x","t","/","p","l","a","i","n">>
          [] k = "source_system" -> client[c].sourceSystem]

\* Object.assign(object, source): the source's values win
Assign(object, source) ==
    [k \in DOMAIN object \cup DOMAIN source |->
        IF k \in DOMAIN source THEN source[k] ELSE object[k]]

\* _.defaults(object, source): the object after the call; only the keys that
\* resolve to undefined on the object are taken from the source
Defaults(object, source) ==
    [k \in DOMAIN object \cup DOMAIN source |->
        IF k \in DOMAIN object THEN object[k] ELSE source[k]]

\* _request of src/lib/ArcCre.js up to the await: _.defaults is applied to
\* config.headers itself.  When that is a caller's object the object is
\* changed in place; when it is null or undefined lodash fills an object of
\* its own, which is dropped, and config.headers stays as it was.
\* Gives the heap after the call and the headers the transport is handed.
PrepareLib(c, headers) ==
    IF headers \in HeaderObjs
    THEN LET merged == Defaults(heap[headers], DefaultHeaders(c))
         IN  [heap |-> [heap EXCEPT ![headers] = merged],
              hasHeaders |-> TRUE, sent |-> merged]
    ELSE [heap |-> heap, hasHeaders |-> FALSE, sent |-> EmptyObject]

\* _request of src/unnamed/part_000 up to the await: config.headers is the
\* caller's object, or a fresh one when the caller passed none
PrepareUnnamed(c, headers) ==
    IF headers \in HeaderObjs
    THEN LET merged == Defaults(heap[headers], DefaultHeaders(c))
         IN  [heap |-> [heap EXCEPT ![headers] = merged],
              hasHeaders |-> TRUE, sent |-> merged]
    ELSE [heap |-> heap, hasHeaders |-> TRUE,
          sent |-> Defaults(EmptyObject, DefaultHeaders(c))]

Prepare(c, headers) ==
    IF impl = "lib" THEN PrepareLib(c, headers) ELSE PrepareUnnamed(c, headers)

\* the axios configuration each file builds in _get/_post/_request
\* (get/post/_request); params || { } is the empty object for every caller
\* of this model, which passes no query parameters
Config(c, method, endpoint, hasData, data) ==
    LET base == [method |-> method, url |-> BuildApiUrl(c, endpoint),
                 params |-> EmptyObject]
        withData == IF hasData THEN base @@ [data |-> data] ELSE base
    IN  IF impl = "lib" THEN withData
        ELSE withData @@ [timeout |-> client[c].timeout]

\* one operation from its call to the await of the transport; args are the
\* arguments the caller gave the operation
Dispatch(k, c, op, args, method, endpoint, hasData, data, headers) ==
    /\ calls[k].pc = "idle"
    /\ LET pre == Prepare(c, headers)
       IN  /\ heap' = pre.heap
           /\ calls' = [calls EXCEPT ![k] =
                  [pc |-> "awaiting", client |-> c, op |-> op, args |-> args,
                   endpoint |-> endpoint,
                   headersArg |-> headers,
                   given |-> IF headers \in HeaderObjs THEN heap[headers]
                             ELSE EmptyObject,
                   config |-> Config(c, method, endpoint, hasData, data),
                   hasHeaders |-> pre.hasHeaders,
                   sent |-> pre.sent]]
    /\ UNCHANGED <<impl, options, client, logs, built>>

MethodGet == IF impl = "lib" THEN <<"g","e","t">> ELSE <<"G","E","T">>

MethodPost == IF impl = "lib" THEN <<"p","o","s","t">> ELSE <<"P","O","S","T">>

\* _get / get, called with a headers argument
Get(k, c, endpoint, headers) ==
    Dispatch(k, c, "get", [endpoint |-> endpoint], MethodGet, endpoint,
             FALSE, <<>>, headers)

\* _post / post, called with a headers argument
Post(k, c, endpoint, data, headers) ==
    Dispatch(k, c, "post", [endpoint |-> endpoint, data |-> data], MethodPost,
             endpoint, TRUE, data, headers)

\* createCRE: serializes the records and posts them to /cre with null
\* params and null headers
CreateCRE(k, c, organizationId, batchId, classId, opts) ==
    Dispatch(k, c, "createCRE",
             [organizationId |-> organizationId, batchId |-> batchId,
              classId |-> classId, options |-> opts],
             MethodPost, <<"/","c","r","e">>, TRUE,
             Body(c, organizationId, batchId, classId, opts), "null")

\* getCRE: GET /cre/${offeringId} with no params and no headers
GetCRE(k, c, offeringId) ==
    Dispatch(k, c, "getCRE", [offeringId |-> offeringId], MethodGet,
             <<"/","c","r","e","/">> \o offeringId, FALSE, <<>>, "undefined")

\* ping: GET /ping with no params and no headers
Ping(k, c) ==
    Dispatch(k, c, "ping", EmptyObject, MethodGet, <<"/","p","i","n","g">>,
             FALSE, <<>>, "undefined")

(***************************************************************************)
(* The transport's answer and the rest of _request                         *)
(***************************************************************************)
Resolved(v) == [kind |-> "resolved", value |-> v]

Rejected(e) == [kind |-> "rejected", error |-> e]

Null == [t |-> "null"]

Data(d) == [t |-> "data", v |-> d]

StatusText(status) ==
    CASE status = 200 -> <<"O","K">>
      [] status = 404 -> <<"N","o","t"," ","F","o","u","n","d">>
      [] OTHER -> <<"E","r","r","o","r">>

\* the path of a URL, as the transport reports it in response.request.path
PathOf(url) ==
    LET i == CHOOSE n \in 1..Len(url) :
                 /\ SubSeq(url, n, n + 2) = <<":","/","/">>
                 /\ \A m \in 1..(n - 1) : SubSeq(url, m, m + 2) # <<":","/","/">>
        j == CHOOSE n \in (i + 3)..Len(url) :
                 /\ url[n] = "/"
                 /\ \A m \in (i + 3)..(n - 1) : url[m] # "/"
    IN  SubSeq(url, j, Len(url))

\* the response object of the transport
Response(call, status, data) ==
    [status |-> status, statusText |-> StatusText(status), data |-> data,
     path |-> PathOf(call.config.url)]

\* the error the transport rejects with when the upstream answered non-2xx
HttpError(response) ==
    [name |-> "AxiosError",
     message |-> <<"R","e","q","u","e","s","t"," ","f","a","i","l","e","d",
                   " ","w","i","t","h"," ","s","t","a","t","u","s"," ",
                   "c","o","d","e"," ">> \o NumberToString(response.status),
     response |-> response]

\* the error the transport rejects with when no response was received: it
\* has no response property
NoResponseError(kind) ==
    [name |-> "AxiosError",
     message |-> IF kind = "timeout"
                 THEN <<"t","i","m","e","o","u","t">>
                 ELSE <<"N","e","t","w","o","r","k"," ","E","r","r","o","r">>]

RECURSIVE Escape(_)
\* the characters of a string as JSON.stringify writes them
Escape(s) ==
    IF s = <<>> THEN <<>>
    ELSE (CASE Head(s) = "\n" -> <<"\\", "n">>
            [] Head(s) = "\r" -> <<"\\", "r">>
            [] Head(s) = "\"" -> <<"\\", "\"">>
            [] Head(s) = "\\" -> <<"\\", "\\">>
            [] OTHER -> <<Head(s)>>) \o Escape(Tail(s))

\* JSON.stringify of a string
JsonStringify(s) == <<"\"">> \o Escape(s) \o <<"\"">>

\* _.compact: null and the empty string are both falsy; null is written <<>>
Compact(parts) == SelectSeq(parts, LAMBDA x : x # <<>>)

\* _writeLog of src/unnamed/part_000: the lines the logger has received
\* after the call
WriteLog(c, endpoint, axiosConfig, response, logLevel) ==
    IF client[c].logger
    THEN LET cfg == client[c].loggerConfig
             logParts ==
               << <<"[">> \o client[c].name \o <<":">> \o client[c].host
                     \o <<"]">>,
                  axiosConfig.method,
                  IF cfg.url THEN BuildScheme(c) ELSE <<>>,
                  IF cfg.params THEN response.path ELSE endpoint,
                  IF cfg.data /\ "data" \in DOMAIN axiosConfig
                    THEN JsonStringify(axiosConfig.data) ELSE <<>>,
                  NumberToString(response.status) \o <<" ">>
                     \o response.statusText,
                  IF cfg.response THEN JsonStringify(response.data) ELSE <<>> >>
         IN  Append(logs, [level |-> logLevel,
                           log |-> Join(Compact(logParts), <<" ">>)])
    ELSE logs

\* src/lib/ArcCre.js, after the await resolved: return response.data
ThenLib(call, response) ==
    [result |-> Resolved(Data(response.data)), logs |-> logs]

\* src/lib/ArcCre.js, the catch block: reading e.response.status of an error
\* that has no response throws a TypeError out of the catch block
CatchLib(call, e) ==
    IF "response" \notin DOMAIN e
    THEN [result |-> Rejected([name |-> "TypeError",
                               message |-> <<"u","n","d","e","f","i","n","e","d">>]),
          logs |-> logs]
    ELSE [result |-> Rejected(
              [name |-> "Error",
               message |-> NumberToString(e.response.status) \o <<" ","-"," ">>
                             \o call.config.url
                             \o <<" ","f","a","i","l","e","d">>,
               code |-> e.response.status,
               meta |-> e.response.data]),
          logs |-> logs]

\* src/unnamed/part_000, after the await resolved: log, return response.data
ThenUnnamed(call, response) ==
    [result |-> Resolved(Data(response.data)),
     logs |-> WriteLog(call.client, call.endpoint, call.config, response,
                       client[call.client].logLevel)]

\* the catch block with the 404 test placed before the log call
CatchUnnamedReturnsFirst(call, e) ==
    IF "response" \in DOMAIN e
    THEN IF e.response.status = 404
         THEN [result |-> Resolved(Null), logs |-> logs]
         ELSE [result |-> Rejected(e),
               logs |-> WriteLog(call.client, call.endpoint, call.config,
                                 e.response, <<"e","r","r","o","r">>)]
    ELSE [result |-> Rejected(e), logs |-> logs]

\* src/unnamed/part_000, the catch block
CatchUnnamed(call, e) ==
    IF "response" \in DOMAIN e
    THEN [result |-> IF e.response.status = 404 THEN Resolved(Null)
                     ELSE Rejected(e),
          logs |-> WriteLog(call.client, call.endpoint, call.config,
                            e.response, <<"e","r","r","o","r">>)]
    ELSE [result |-> Rejected(e), logs |-> logs]

Settle(k, transport, after) ==
    /\ calls' = [calls EXCEPT ![k] =
           [f \in DOMAIN calls[k] \cup {"transport", "result"} |->
               CASE f = "pc" -> "settled"
                 [] f = "transport" -> transport
                 [] f = "result" -> after.result
                 [] OTHER -> calls[k][f]]]
    /\ logs' = after.logs
    /\ UNCHANGED <<impl, options, client, heap, built>>

\* the upstream answers 2xx: the awaited promise resolves
Respond(k, status, data) ==
    /\ calls[k].pc = "awaiting"
    /\ LET response == Response(calls[k], status, data)
       IN  Settle(k, [ok |-> TRUE, response |-> response],
                  IF impl = "lib" THEN ThenLib(calls[k], response)
                  ELSE ThenUnnamed(calls[k], response))

\* the upstream answers non-2xx: the awaited promise rejects with an error
\* that carries the response
RespondError(k, status, data) ==
    /\ calls[k].pc = "awaiting"
    /\ LET e == HttpError(Response(calls[k], status, data))
       IN  Settle(k, [ok |-> FALSE, error |-> e],
                  IF impl = "lib" THEN CatchLib(calls[k], e)
                  ELSE CatchUnnamed(calls[k], e))

\* no response arrives (network failure, timeout): the awaited promise
\* rejects with an error that carries no response
Fail(k, kind) ==
    /\ calls[k].pc = "awaiting"
    /\ LET e == NoResponseError(kind)
       IN  Settle(k, [ok |-> FALSE, error |-> e],
                  IF impl = "lib" THEN CatchLib(calls[k], e)
                  ELSE CatchUnnamed(calls[k], e))

\* a direct call of _buildApiUrl
BuildUrl(c, endpoint) ==
    /\ built' = built \cup {[client |-> c, endpoint |-> endpoint,
                             url |-> BuildApiUrl(c, endpoint)]}
    /\ UNCHANGED <<impl, options, client, heap, calls, logs>>

(***************************************************************************)
(* Inputs                                                                  *)
(***************************************************************************)
Http == <<"h","t","t","p">>

ShortHost == <<"h",".","i","o">>

LoggerConfigs ==
    [c \in Clients |->
        IF c = "c1"
        THEN [url |-> TRUE, params |-> FALSE, data |-> TRUE, response |-> TRUE]
        ELSE [url |-> FALSE, params |-> TRUE, data |-> FALSE,
              response |-> FALSE]]

\* the options of the two clients: c1 leaves every optional field out, c2
\* sets them; the two are configured with different credentials
MainOptions ==
    [c \in Clients |->
        IF c = "c1"
        THEN [apiVersion |-> 0, version |-> 0, host |-> <<>>,
              clientId |-> <<"i","1">>, clientSecret |-> <<"s","1">>,
              sourceSystem |-> <<"y","1">>, loggerConfig |-> LoggerConfigs[c],
              logLevel |-> <<>>, protocol |-> <<>>, timeout |-> 0]
        ELSE [apiVersion |-> 2, version |-> 0, host |-> ShortHost,
              clientId |-> <<"i","2">>, clientSecret |-> <<"s","2">>,
              sourceSystem |-> <<"y","2">>, loggerConfig |-> LoggerConfigs[c],
              logLevel |-> <<"i","n","f","o">>, protocol |-> Http,
              timeout |-> 5000]]

\* the options _buildApiUrl is exercised with: apiVersion, version and
\* protocol each given or left out
UrlOptions ==
    { [MainOptions[c] EXCEPT !.apiVersion = a, !.version = v, !.protocol = p] :
        c \in {"c2"}, a \in {0, 2}, v \in {0, 13}, p \in {<<>>, Http} }

UrlEndpoints ==
    { <<"c","r","e">>, <<"/","c","r","e">>, <<"c","r","e","/","7">>,
      <<"/","c","r","e","/","7">> }

FieldNames ==
    { "organizationName", "poAccountName", "productSKU", "startDate",
      "endDate", "numberOfStudents", "facilityName", "address", "city",
      "state", "zipCode", "instructorID", "firstName", "lastName", "email",
      "phoneNumber", "mastery", "notes" }

\* a record of type t whose fields all hold the one-character string s
FullRecord(t, s) ==
    [f \in FieldNames \cup {"type"} |-> IF f = "type" THEN t ELSE <<s>>]

\* a record of type t that carries only some of its fields
SparseRecord(t, s) ==
    [f \in {"type", "firstName", "poAccountName"} |->
        IF f = "type" THEN t ELSE <<s>>]

\* the records batches are drawn from: the three record types, an
\* unrecognized type code, and a record with no type at all
Records ==
    { FullRecord(<<t>>, "m") : t \in {"A", "B", "C", "D"} }
      \cup { SparseRecord(<<"B">>, "n"), [firstName |-> <<"u">>] }

Batches == UNION { [1..n -> Records] : n \in 0..MaxRecords }

SampleBatches ==
    { <<>>,
      <<FullRecord(<<"B">>, "m"), FullRecord(<<"D">>, "m"),
        SparseRecord(<<"A">>, "n")>> }

OrganizationIds == { <<"o","9">> }

BatchIds == { 12 }

ClassIds == { 3 }

OfferingIds == { <<"7">> }

HelperEndpoints == { <<"p","i","n","g">> }

PostData == { <<"x">> }

SuccessStatuses == { 200 }

ErrorStatuses == { 404, 500 }

ResponseBodies == { <<"r">> }

FailureKinds == { "network", "timeout" }

\* the caller's header objects before any call: h1 sets nothing, h2 sets a
\* header of its own and two that collide with the defaults
InitialHeap ==
    [h \in HeaderObjs |->
        IF h = "h1" THEN EmptyObject
        ELSE [n \in {"X-Trace", "client_id", "Content-Type"} |->
                CASE n = "X-Trace" -> <<"t">>
                  [] n = "client_id" -> <<"m","i","n","e">>
                  [] n = "Content-Type" -> <<"j","s","o","n">>]]

(***************************************************************************)
(* Specifications                                                          *)
(***************************************************************************)
Construct(o, logger) ==
    IF impl = "lib" THEN ArcCreLib(o) ELSE ArcCreUnnamed(o, logger)

InitWith(optionChoices) ==
    /\ impl \in Impls
    /\ options \in optionChoices
    /\ \E logger \in BOOLEAN :
          /\ impl = "lib" => ~logger
          /\ client = [c \in Clients |-> Construct(options[c], logger)]
    /\ heap = InitialHeap
    /\ calls = [k \in Callers |-> [pc |-> "idle"]]
    /\ logs = <<>>
    /\ built = {}

Init == InitWith({MainOptions})

Transport(k) ==
    \/ \E status \in SuccessStatuses, data \in ResponseBodies :
          Respond(k, status, data)
    \/ \E status \in ErrorStatuses, data \in ResponseBodies :
          RespondError(k, status, data)
    \/ \E kind \in FailureKinds : Fail(k, kind)

Next ==
    \E k \in Callers :
       \/ \E c \in Clients :
            \/ \E o \in OrganizationIds, b \in BatchIds, cl \in ClassIds,
                  opts \in SampleBatches : CreateCRE(k, c, o, b, cl, opts)
            \/ \E id \in OfferingIds : GetCRE(k, c, id)
            \/ Ping(k, c)
            \/ \E e \in HelperEndpoints, h \in HeaderArgs : Get(k, c, e, h)
            \/ \E e \in HelperEndpoints, d \in PostData, h \in HeaderObjs :
                  Post(k, c, e, d, h)
       \/ Transport(k)

Spec == Init /\ [][Next]_vars

\* createCRE alone, over every batch of up to MaxRecords records
NextCRE ==
    \/ \E c \in Clients, o \in OrganizationIds, b \in BatchIds,
          cl \in ClassIds, opts \in Batches : CreateCRE("a", c, o, b, cl, opts)
    \/ Transport("a")

SpecCRE == Init /\ [][NextCRE]_vars

\* _buildApiUrl alone, over the ways of configuring a client
InitUrl == InitWith([Clients -> UrlOptions])

NextUrl == \E c \in Clients, e \in UrlEndpoints : BuildUrl(c, e)

SpecUrl == InitUrl /\ [][NextUrl]_vars

(***************************************************************************)
(* Vocabulary of the properties                                            *)
(***************************************************************************)
Contains(s, sub) ==
    \E i \in 1..(Len(s) - Len(sub) + 1) : SubSeq(s, i, i + Len(sub) - 1) = sub

StartsWith(s, pre) == Len(pre) <= Len(s) /\ SubSeq(s, 1, Len(pre)) = pre

EndsWith(s, suf) ==
    Len(suf) <= Len(s) /\ SubSeq(s, Len(s) - Len(suf) + 1, Len(s)) = suf

RECURSIVE SplitOn(_, _)
\* s.split(sep)
SplitOn(s, sep) ==
    IF Contains(s, sep)
    THEN LET i == CHOOSE n \in 1..Len(s) :
                    /\ SubSeq(s, n, n + Len(sep) - 1) = sep
                    /\ \A m \in 1..(n - 1) : SubSeq(s, m, m + Len(sep) - 1) # sep
         IN  <<SubSeq(s, 1, i - 1)>>
               \o SplitOn(SubSeq(s, i + Len(sep), Len(s)), sep)
    ELSE <<s>>

Dispatched(k) == calls[k].pc \in {"awaiting", "settled"}

Settled(k) == calls[k].pc = "settled"

\* the transport answered with a response (2xx or not)
GotResponse(k) ==
    /\ Settled(k)
    /\ calls[k].transport.ok \/ "response" \in DOMAIN calls[k].transport.error

\* the transport answered with a non-2xx response
GotErrorResponse(k) ==
    /\ Settled(k)
    /\ ~calls[k].transport.ok
    /\ "response" \in DOMAIN calls[k].transport.error

\* the transport failed without a response
GotNoResponse(k) ==
    /\ Settled(k)
    /\ ~calls[k].transport.ok
    /\ "response" \notin DOMAIN calls[k].transport.error

Operations == {"createCRE", "getCRE", "ping"}

\* the value the client's options configure for a default header
Configured(c, n) ==
    CASE n = "client_id" -> options[c].clientId
      [] n = "client_secret" -> options[c].clientSecret
      [] n = "source_system" -> options[c].sourceSystem
      [] n = "Content-Type" -> <<"t","e","x","t","/","p","l","a","i","n">>

DefaultNames == {"client_id", "client_secret", "source_system", "Content-Type"}

Recognized(opts) ==
    SelectSeq(opts, LAMBDA r : TypeOf(r) \in {<<"A">>, <<"B">>, <<"C">>})

\* the lines of the request body of a createCRE call
BodyLines(k) ==
    IF calls[k].config.data = <<>> THEN <<>>
    ELSE SplitOn(calls[k].config.data, LineBreak)

IsCreate(k) == Dispatched(k) /\ calls[k].op = "createCRE"

(***************************************************************************)
(* C1                                                                      *)
(***************************************************************************)
\* C1: every request dispatched by createCRE, getCRE and ping carries the
\* four default headers with the configured values, in both files.
C1_DefaultHeadersOnEveryRequest ==
    \A k \in Callers :
        (Dispatched(k) /\ calls[k].op \in Operations) =>
            \A n \in DefaultNames :
                /\ n \in DOMAIN calls[k].sent
                /\ calls[k].sent[n] = Configured(calls[k].client, n)

(***************************************************************************)
(* C2                                                                      *)
(***************************************************************************)
\* C2: the line serialized for a record of type A, B or C begins with
\* organizationId, batchId, classId and the record's own type code.
C2_LineBeginsWithOwnTypeCode ==
    \A k \in Callers :
        IsCreate(k) =>
            LET recs == Recognized(calls[k].args.options)
                lines == BodyLines(k)
            IN  \A i \in 1..Len(recs) :
                    /\ i <= Len(lines)
                    /\ LET cols == SplitOn(lines[i], DELIMITER)
                       IN  /\ Len(cols) >= 4
                           /\ cols[1] = calls[k].args.organizationId
                           /\ cols[2] = NumberToString(calls[k].args.batchId)
                           /\ cols[3] = NumberToString(calls[k].args.classId)
                           /\ cols[4] = recs[i]["type"]

(***************************************************************************)
(* C3                                                                      *)
(***************************************************************************)
\* C3: when the transport fails without a response, the operation rejects
\* with exactly the error the transport raised.
C3_NoResponseErrorPropagatedUnchanged ==
    \A k \in Callers :
        (GotNoResponse(k) /\ calls[k].op \in Operations) =>
            /\ calls[k].result.kind = "rejected"
            /\ calls[k].result.error = calls[k].transport.error

(***************************************************************************)
(* C4                                                                      *)
(***************************************************************************)
\* C4: a non-2xx answer (other than a 404 on getCRE) raises an error whose
\* code is the upstream status, whose meta is the upstream body and whose
\* message includes the request URL.
C4_HttpErrorCarriesStatusBodyAndUrl ==
    \A k \in Callers :
        ( /\ GotErrorResponse(k)
          /\ calls[k].op \in Operations
          /\ ~(calls[k].transport.error.response.status = 404
               /\ calls[k].op = "getCRE") ) =>
            /\ calls[k].result.kind = "rejected"
            /\ LET err == calls[k].result.error
                   response == calls[k].transport.error.response
               IN  /\ "code" \in DOMAIN err
                   /\ err.code = response.status
                   /\ "meta" \in DOMAIN err
                   /\ err.meta = response.data
                   /\ Contains(err.message, calls[k].config.url)

(***************************************************************************)
(* C5                                                                      *)
(***************************************************************************)
\* C5: in src/unnamed/part_000 an operation resolves to null on a 404 if
\* and only if the operation is getCRE.
C5_NullOn404OnlyForGetCRE ==
    impl = "unnamed" =>
        \A k \in Callers :
            ( /\ GotErrorResponse(k)
              /\ calls[k].op \in Operations
              /\ calls[k].transport.error.response.status = 404 ) =>
                (calls[k].result = Resolved(Null) <=> calls[k].op = "getCRE")

(***************************************************************************)
(* C6                                                                      *)
(***************************************************************************)
\* C6: when a caller passes a headers mapping to get/post (_get/_post), the
\* dispatched headers are the merge with caller precedence: every name the
\* mapping holds keeps the mapping's value, every default name it does not
\* hold is present with its default value, and nothing else is sent.
C6_CallerHeadersTakePrecedence ==
    \A k \in Callers :
        (Dispatched(k) /\ calls[k].headersArg \in HeaderObjs) =>
            /\ calls[k].hasHeaders
            /\ DOMAIN calls[k].sent = DOMAIN calls[k].given \cup DefaultNames
            /\ \A n \in DOMAIN calls[k].given :
                  calls[k].sent[n] = calls[k].given[n]
            /\ \A n \in DefaultNames \ DOMAIN calls[k].given :
                  calls[k].sent[n] = Configured(calls[k].client, n)

\* a request went out with the caller's own client_id and Content-Type next
\* to the client's default client_secret
C6_Witness ==
    \E k \in Callers :
        /\ Dispatched(k)
        /\ calls[k].headersArg = "h2"
        /\ calls[k].sent["client_id"] = <<"m","i","n","e">>
        /\ calls[k].sent["client_id"] # options[calls[k].client].clientId
        /\ calls[k].sent["Content-Type"] = <<"j","s","o","n">>
        /\ calls[k].sent["client_secret"] = options[calls[k].client].clientSecret

(***************************************************************************)
(* C7                                                                      *)
(***************************************************************************)
\* the number of columns of a record's line and the field its last column
\* holds, per record type, in each file
Width(t) ==
    CASE t = <<"A">> -> IF impl = "lib" THEN 15 ELSE 16
      [] t = <<"B">> -> 8
      [] t = <<"C">> -> 10

LastField(t) ==
    CASE t = <<"A">> -> "zipCode"
      [] t = <<"B">> -> "email"
      [] t = <<"C">> -> "notes"

\* the field that follows the type code's neighbours, per record type: the
\* sixth column of an instructor line and the fifth of a student line hold
\* firstName, the seventh (lib: sixth) of an organization line poAccountName
MarkColumn(t) ==
    CASE t = <<"A">> -> IF impl = "lib" THEN 6 ELSE 7
      [] t = <<"B">> -> 6
      [] t = <<"C">> -> 5

MarkField(t) == IF t = <<"A">> THEN "poAccountName" ELSE "firstName"

\* C7: records with an unrecognized type produce no line and no error: the
\* body holds exactly one line per recognized record, in input order, and
\* the POST is issued (with an empty body when no record is recognized).
C7_OneLinePerRecognizedRecordInOrder ==
    \A k \in Callers :
        IsCreate(k) =>
            LET recs == Recognized(calls[k].args.options)
                lines == BodyLines(k)
            IN  /\ calls[k].config.method = MethodPost
                /\ "data" \in DOMAIN calls[k].config
                /\ Len(lines) = Len(recs)
                /\ \A i \in 1..Len(recs) :
                      LET cols == SplitOn(lines[i], DELIMITER)
                          t == recs[i]["type"]
                      IN  /\ Len(cols) = Width(t)
                          /\ cols[Len(cols)] = Field(recs[i], LastField(t))
                          /\ cols[MarkColumn(t)] = Field(recs[i], MarkField(t))

\* a batch of three whose middle record is not recognized was posted as two
\* lines, and a batch with no recognized record as an empty body
C7_Witness ==
    \E k \in Callers :
        /\ IsCreate(k)
        /\ Len(calls[k].args.options) = 3
        /\ TypeOf(calls[k].args.options[1]) = <<"C">>
        /\ TypeOf(calls[k].args.options[2]) = <<"D">>
        /\ TypeOf(calls[k].args.options[3]) = <<"B">>
        /\ Len(BodyLines(k)) = 2
        /\ impl = "unnamed"

(***************************************************************************)
(* C8                                                                      *)
(***************************************************************************)
\* the endpoint without its leading separator
Unslashed(p) == IF FirstChar(p) = <<"/">> THEN Tail(p) ELSE p

\* C8: _buildApiUrl(p) and _buildApiUrl('/' + p) are the same string, of the
\* form protocol://host/...v{apiVersion}/p with the configured protocol
\* (https when omitted) and the configured version (1 when omitted).
C8_UrlFormAndIdempotence ==
    \A b \in built :
        LET o == options[b.client]
            p == Unslashed(b.endpoint)
            protocol == IF o.protocol = <<>> THEN Https ELSE o.protocol
            version == IF o.apiVersion # 0 THEN o.apiVersion
                       ELSE IF o.version # 0 THEN o.version ELSE 1
        IN  /\ \A b2 \in built :
                  (b2.client = b.client /\ Unslashed(b2.endpoint) = p) =>
                      b2.url = b.url
            /\ StartsWith(b.url, protocol \o <<":","/","/">>
                                   \o client[b.client].host \o <<"/">>)
            /\ EndsWith(b.url, <<"/","v">> \o NumberToString(version)
                                   \o <<"/">> \o p)

(***************************************************************************)
(* C9                                                                      *)
(***************************************************************************)
LoggerSupplied == impl = "unnamed" /\ \A c \in Clients : client[c].logger

\* C9: in src/unnamed/part_000, with a logger and a logging configuration,
\* every request that completed with a response has emitted exactly one log
\* line by the time it settles (none while it is awaited), a non-2xx
\* response at the error level, a 404 turned into null included.
C9_OneLogLinePerCompletedRequest ==
    LoggerSupplied =>
        /\ Len(logs) = Cardinality({k \in Callers : GotResponse(k)})
        /\ Cardinality({i \in DOMAIN logs : logs[i].level = <<"e","r","r","o","r">>})
             = Cardinality({k \in Callers : GotErrorResponse(k)})
        /\ \A k \in Callers :
              GotResponse(k) =>
                 LET response == IF calls[k].transport.ok
                                 THEN calls[k].transport.response
                                 ELSE calls[k].transport.error.response
                 IN  \E i \in DOMAIN logs :
                        /\ Contains(logs[i].log,
                                    NumberToString(response.status) \o <<" ">>
                                       \o response.statusText)
                        /\ logs[i].level = <<"e","r","r","o","r">>
                             <=> ~calls[k].transport.ok

\* one request ended 2xx and one ended in a 404 that resolved to null, and
\* the logger holds two lines
C9_Witness ==
    /\ LoggerSupplied
    /\ Len(logs) = 2
    /\ \E k \in Callers :
          /\ GotErrorResponse(k)
          /\ calls[k].transport.error.response.status = 404
          /\ calls[k].result = Resolved(Null)
    /\ \E k \in Callers : Settled(k) /\ calls[k].transport.ok

(***************************************************************************)
(* C10                                                                     *)
(***************************************************************************)
\* C10: when the same headers mapping is given to two calls on clients with
\* different credentials, each dispatched request carries the client_id,
\* client_secret and source_system of the client that issued it (for the
\* names the caller's mapping did not set).
C10_SharedMappingKeepsEachClientsCredentials ==
    \A k1, k2 \in Callers :
        ( /\ k1 # k2
          /\ Dispatched(k1) /\ Dispatched(k2)
          /\ calls[k1].headersArg \in HeaderObjs
          /\ calls[k1].headersArg = calls[k2].headersArg
          /\ calls[k1].client # calls[k2].client ) =>
            \A n \in {"client_id", "client_secret", "source_system"}
                       \ DOMAIN InitialHeap[calls[k1].headersArg] :
                calls[k1].sent[n] = Configured(calls[k1].client, n)

====
